---- MODULE Spec2Model ----
(***************************************************************************)
(* A model of the dbwrkr PostgreSQL storage adapter                        *)
(* (src/dbwrkr-postgresql.js, src/lib/utils.js) over the relational schema *)
(* of the setup library (wrkr_events, wrkr_queues, wrkr_items).            *)
(*                                                                         *)
(* Every pool.query round trip is one step of the model: the store runs    *)
(* each statement in its own transaction (autocommit) under PostgreSQL's   *)
(* default READ COMMITTED isolation.  A statement that selects in a CTE    *)
(* and updates the selected row takes two steps: the CTE is evaluated on   *)
(* the statement's snapshot, and the UPDATE then acts on the latest        *)
(* committed version of the row, re-checking only its own WHERE clause.    *)
(***************************************************************************)
EXTENDS Integers, Sequences, FiniteSets, TLC

\* ------------------------------------------------------------------ bounds
MaxTime == 2
MaxItems == 3
MaxBatch == 2
NProcs == 2
NInsts == 2
MaxCalls == 3
MaxSubCalls == 4
MaxConnCalls == 3

\* --------------------------------------------------------------- constants
\* SQL NULL / a JS null or absent value, for ids and timestamps (which are >= 1)
NULL == 0
\* the JS value undefined where a name is expected
UNDEF == "undefined"
\* no string: an absent name in a criteria object, no error in a callback
NONE == ""
\* a name whose lookup round trip is still in flight
PENDING == "?"

EventNames == {"e1"}
QueueNames == {"q1", "q2"}
Kinds == {"event", "queue"}
Times == 1..MaxTime
Procs == 1..NProcs
Insts == 1..NInsts
\* the adapter instance (and so the memo) a caller uses
InstOf(p) == ((p - 1) % NInsts) + 1
\* the callers that publish, find and remove; every caller consumes with fetchNext
Producers == {1}

VARIABLES
    events,     \* wrkr_events: set of rows [id, name]
    queues,     \* wrkr_queues: set of rows [id, name]
    items,      \* wrkr_items: function id -> row
    subs,       \* wrkr_subscriptions: set of rows [event_id, queue_id]
    eventSeq,   \* last value of wrkr_events' serial
    queueSeq,   \* last value of wrkr_queues' serial
    itemSeq,    \* last value of wrkr_items' serial
    memoIds,    \* memorizedEventIds / memorizedQueueIds of each instance
    memoNames,  \* memorizedEventNames / memorizedQueueNames of each instance
    clock,      \* the wall clock read by new Date()
    proc,       \* the operation each caller has in flight
    ncalls,     \* operations started so far
    lastSubscribed, \* history: the <<event, queue>> name pairs whose most recent
                \* successful subscribe / unsubscribe call was a subscribe
    pool,       \* this.pool of each instance, with the number of its end() calls
    database,   \* whether the database named in the options exists
    tables      \* the tables of the database; history: the CREATE TABLE and the
                \* other DDL statements run on each since the initial state

vars == <<events, queues, items, subs, eventSeq, queueSeq, itemSeq, memoIds, memoNames, clock, proc, ncalls, lastSubscribed,
          pool, database, tables>>
setup == <<pool, database, tables>>
store == <<events, queues, items, subs, eventSeq, queueSeq, itemSeq>>
memos == <<memoIds, memoNames>>

\* ------------------------------------------------------------------ values
\* A work-item draft as handed to publish; NULL marks a property the draft lacks.
\* The drafts tried: on the first queue a due draft with every created value and
\* a draft of every when value, on each other queue one due draft; the drafts
\* created and due at time 1 carry a retryCount.
Drafts ==
    {d \in [name : EventNames, queue : QueueNames, created : {NULL} \cup Times, when : {NULL} \cup Times,
            retryCount : {NULL, 1}] :
        /\ d.created # 1 => d.when = 1
        /\ d.queue # "q1" => (d.created = 1 /\ d.when = 1)
        /\ d.retryCount # NULL <=> (d.created = 1 /\ d.when = 1)}

\* publish's argument: an array of drafts, or one draft that is not wrapped in an array
RECURSIVE SeqsUpTo(_, _)
SeqsUpTo(S, n) == IF n = 0 THEN {<<>>}
                  ELSE LET shorter == SeqsUpTo(S, n - 1)
                       IN shorter \cup {Append(s, x) : s \in {t \in shorter : Len(t) = n - 1}, x \in S}

NoInput == [isArray |-> TRUE, list |-> <<>>]
NoCrit == [id |-> NULL, ids |-> <<>>, name |-> NONE, queue |-> NONE, event_id |-> NULL, queue_id |-> NULL]

Idle == [pc |-> "idle", op |-> "none", kind |-> NONE, name |-> NONE,
         event |-> NONE, queue |-> NONE, id |-> NULL, table |-> NONE, stmt |-> NULL,
         queueId |-> NULL, now |-> NULL, sel |-> NULL,
         input |-> NoInput, crit |-> NoCrit, counter |-> NULL, whereSQL |-> NULL,
         missE |-> {}, missQ |-> {},
         res |-> {}, ids |-> <<>>, err |-> NONE]

Table(kind) == IF kind = "event" THEN events ELSE queues

\* f with key k bound to v (obj[k] = v)
Put(f, k, v) == [x \in DOMAIN f \cup {k} |-> IF x = k THEN v ELSE f[x]]

\* this[memorizedIdObject][name], NULL when the entry is missing (falsy)
MemoId(mi, kind, name) == IF name \in DOMAIN mi[kind] THEN mi[kind][name] ELSE NULL

\* this[memorizedNameObject][id]; PENDING when the entry is missing or falsy, so
\* that getName goes to the store
MemoName(mn, kind, id) == IF id \in DOMAIN mn[kind] /\ mn[kind][id] # UNDEF THEN mn[kind][id] ELSE PENDING

\* self[memorizedIdObject][name] = id
MemoIdsSet(mi, kind, name, id) == [mi EXCEPT ![kind] = Put(@, name, id)]

\* self[memorizedNameObject][id] = name
MemoNamesSet(mn, kind, id, name) == [mn EXCEPT ![kind] = Put(@, id, name)]

\* ----------------------------------------------------- criteria resolution
QueryPc(op) ==
    CASE op = "remove" -> "remove_query"
      [] op = "find" -> "find_query"
      [] op = "subscribe" -> "subscribe_query"
      [] op = "unsubscribe" -> "unsubscribe_query"
      [] OTHER -> "subscriptions_query"

\* second stage of find's / remove's waterfall: criteria.queue -> criteria.queue_id
\* (getId answers from the memo synchronously, otherwise it goes to the store)
ResolveQueue(pr, mi) ==
    IF pr.crit.queue = NONE
    THEN [pr EXCEPT !.pc = QueryPc(pr.op), !.kind = NONE, !.name = NONE]
    ELSE IF MemoId(mi, "queue", pr.crit.queue) # NULL
    THEN [pr EXCEPT !.pc = QueryPc(pr.op), !.kind = NONE, !.name = NONE,
                    !.crit = [@ EXCEPT !.queue_id = MemoId(mi, "queue", pr.crit.queue), !.queue = NONE]]
    ELSE [pr EXCEPT !.pc = "getId_select", !.kind = "queue", !.name = pr.crit.queue]

\* first stage of the waterfall: criteria.name -> criteria.event_id
ResolveName(pr, mi) ==
    IF pr.crit.name = NONE
    THEN ResolveQueue(pr, mi)
    ELSE IF MemoId(mi, "event", pr.crit.name) # NULL
    THEN ResolveQueue([pr EXCEPT !.crit = [@ EXCEPT !.event_id = MemoId(mi, "event", pr.crit.name), !.name = NONE]], mi)
    ELSE [pr EXCEPT !.pc = "getId_select", !.kind = "event", !.name = pr.crit.name]

\* what the caller of getId does with the id it is handed
GotId(pr, id, mi, now) ==
    IF pr.op = "fetchNext"
    THEN [pr EXCEPT !.pc = "fetch_select", !.kind = NONE, !.name = NONE, !.queueId = id, !.now = now]
    ELSE IF pr.op = "getId"
    THEN [pr EXCEPT !.pc = "done", !.id = id]
    ELSE IF pr.kind = "event"
    THEN ResolveQueue([pr EXCEPT !.crit = [@ EXCEPT !.event_id = id, !.name = NONE]], mi)
    ELSE [pr EXCEPT !.pc = QueryPc(pr.op), !.kind = NONE, !.name = NONE,
                    !.crit = [@ EXCEPT !.queue_id = id, !.queue = NONE]]

\* ------------------------------------------------------------------- getId
\* the first query of getId: SELECT id FROM <table> WHERE name = $1 LIMIT 1
GetIdSelect(p) ==
    /\ proc[p].pc = "getId_select"
    /\ LET pr == proc[p]
           i == InstOf(p)
           found == {r \in Table(pr.kind) : r.name = pr.name}
       IN IF found # {}
          THEN \E r \in found :
                 /\ memoIds' = [memoIds EXCEPT ![i] = MemoIdsSet(@, pr.kind, pr.name, r.id)]
                 /\ memoNames' = [memoNames EXCEPT ![i] = MemoNamesSet(@, pr.kind, r.id, pr.name)]
                 /\ proc' = [proc EXCEPT ![p] = GotId(pr, r.id, memoIds'[i], clock)]
          ELSE /\ proc' = [proc EXCEPT ![p].pc = "getId_insert"]
               /\ UNCHANGED memos
    /\ UNCHANGED <<store, clock, ncalls, lastSubscribed, setup>>

\* the second query of getId: INSERT INTO <table> ("name") VALUES ($1) RETURNING *
GetIdInsert(p) ==
    /\ proc[p].pc = "getId_insert"
    /\ LET pr == proc[p]
           i == InstOf(p)
           id == IF pr.kind = "event" THEN eventSeq + 1 ELSE queueSeq + 1
       IN /\ IF pr.kind = "event"
             THEN /\ events' = events \cup {[id |-> id, name |-> pr.name]}
                  /\ eventSeq' = id
                  /\ UNCHANGED <<queues, queueSeq>>
             ELSE /\ queues' = queues \cup {[id |-> id, name |-> pr.name]}
                  /\ queueSeq' = id
                  /\ UNCHANGED <<events, eventSeq>>
          /\ memoIds' = [memoIds EXCEPT ![i] = MemoIdsSet(@, pr.kind, pr.name, id)]
          /\ memoNames' = [memoNames EXCEPT ![i] = MemoNamesSet(@, pr.kind, id, pr.name)]
          /\ proc' = [proc EXCEPT ![p] = GotId(pr, id, memoIds'[i], clock)]
    /\ UNCHANGED <<items, subs, itemSeq, clock, ncalls, lastSubscribed, setup>>

\* ------------------------------------------------------------------- clock
Tick ==
    /\ clock < MaxTime
    /\ clock' = clock + 1
    /\ UNCHANGED <<store, memos, proc, ncalls, lastSubscribed, setup>>

\* ------------------------------------------------------------- fieldMapper
\* the record fieldMapper hands to the callback for a row of wrkr_items
\* (when: item.when || undefined, done: item.done || undefined: NULL is absent)
\* (retryCount: item.retryCount || 0: NULL and 0 are one value here)
MappedItem(id, row, name, queue) ==
    [id |-> id, name |-> name, queue |-> queue, created |-> row.created, when |-> row.when, done |-> row.done,
     retryCount |-> row.retryCount]

\* fieldMapper on the rows `ids` of a result, as far as the memo answers: getName
\* returns a memorized name synchronously and otherwise goes to the store
fieldMapper(rows, ids, mn) ==
    {MappedItem(id, rows[id], MemoName(mn, "event", rows[id].event_id), MemoName(mn, "queue", rows[id].queue_id)) : id \in ids}

\* the ids getName has to look up in the store for these rows
Misses(rows, ids, mn, kind) ==
    IF kind = "event"
    THEN {rows[id].event_id : id \in {j \in ids : MemoName(mn, "event", rows[j].event_id) = PENDING}}
    ELSE {rows[id].queue_id : id \in {j \in ids : MemoName(mn, "queue", rows[j].queue_id) = PENDING}}

\* the callback of a query that returned the rows `ids`: every row goes through
\* fieldMapper; the operation completes at once when the memo answers all names
Mapping(pr, rows, ids, mn) ==
    LET me == Misses(rows, ids, mn, "event")
        mq == Misses(rows, ids, mn, "queue")
    IN [pr EXCEPT !.pc = IF me = {} /\ mq = {} THEN "done" ELSE "map",
                  !.res = fieldMapper(rows, ids, mn), !.missE = me, !.missQ = mq,
                  !.queueId = NULL, !.now = NULL, !.sel = NULL, !.crit = NoCrit]

\* getName's query, SELECT id FROM <table> WHERE id = $1 LIMIT 1, selects no name
\* column: result.rows[0].name is undefined when the row exists, and reading it
\* throws when there is no row
getNameResult(kind, id) == IF \E r \in Table(kind) : r.id = id THEN UNDEF ELSE "TypeError"

\* the name lookups of fieldMapper that went to the store come back
FieldMap(p) ==
    /\ proc[p].pc = "map"
    /\ LET pr == proc[p]
           i == InstOf(p)
           okE == {id \in pr.missE : getNameResult("event", id) = UNDEF}
           okQ == {id \in pr.missQ : getNameResult("queue", id) = UNDEF}
           \* this[memorizedNameObject][id] = resultName
           mn1 == [memoNames[i] EXCEPT !["event"] = [x \in DOMAIN @ \cup okE |-> IF x \in okE THEN UNDEF ELSE @[x]],
                                       !["queue"] = [x \in DOMAIN @ \cup okQ |-> IF x \in okQ THEN UNDEF ELSE @[x]]]
       IN /\ memoNames' = [memoNames EXCEPT ![i] = mn1]
          \* this[memorizedIdObject][resultName] = id, the last lookup to return wins
          /\ \E le \in (IF okE = {} THEN {NULL} ELSE okE), lq \in (IF okQ = {} THEN {NULL} ELSE okQ) :
                LET mi1 == IF le = NULL THEN memoIds[i] ELSE MemoIdsSet(memoIds[i], "event", UNDEF, le)
                    mi2 == IF lq = NULL THEN mi1 ELSE MemoIdsSet(mi1, "queue", UNDEF, lq)
                IN memoIds' = [memoIds EXCEPT ![i] = mi2]
          /\ IF okE = pr.missE /\ okQ = pr.missQ
             THEN proc' = [proc EXCEPT ![p] = [pr EXCEPT !.pc = "done", !.missE = {}, !.missQ = {},
                              !.res = {[m EXCEPT !.name = IF @ = PENDING THEN UNDEF ELSE @,
                                                 !.queue = IF @ = PENDING THEN UNDEF ELSE @] : m \in pr.res}]]
             \* the TypeError is thrown inside the query callback: done is never called
             ELSE proc' = [proc EXCEPT ![p] = [pr EXCEPT !.pc = "crashed", !.missE = {}, !.missQ = {}, !.res = {}]]
    /\ UNCHANGED <<store, clock, ncalls, lastSubscribed, setup>>

\* --------------------------------------------------------------- fetchNext
\* mutants of Eligible: a NULL when compared like a value (so a claimed row matches
\* again), the queue condition dropped, the due condition dropped
Eligible_NullWhenMatches(row, queueId, now) ==
    /\ row.queue_id # NULL /\ row.queue_id = queueId
    /\ row.when <= now

Eligible_AnyQueue(row, queueId, now) ==
    /\ row.when # NULL /\ row.when <= now

Eligible_NotDue(row, queueId, now) ==
    /\ row.queue_id # NULL /\ row.queue_id = queueId
    /\ row.when # NULL

\* WHERE "queue_id" = $1 AND "when" <= $2 (a NULL compares as unknown: no match)
Eligible(row, queueId, now) ==
    /\ row.queue_id # NULL /\ row.queue_id = queueId
    /\ row.when # NULL /\ row.when <= now

\* ORDER BY created DESC: a NULL sorts before every value (NULLS FIRST is the
\* default of DESC)
CreatedRank(row) == IF row.created = NULL THEN MaxTime + 1 ELSE row.created

\* the CTE itemId: the rows ORDER BY created DESC LIMIT 1 may pick
itemId(queueId, now) ==
    LET elig == {id \in DOMAIN items : Eligible(items[id], queueId, now)}
    IN {id \in elig : \A j \in elig : CreatedRank(items[j]) <= CreatedRank(items[id])}

\* mutant of UpdateWhere: the join condition dropped, every row is updated once
\* itemId holds a row
UpdateWhere_AllRows(id, row, sel) == sel # NULL

\* UPDATE wrkr_items ... FROM itemId WHERE wrkr_items.id = itemId.id: the only
\* condition re-checked on the latest version of the row
UpdateWhere(id, row, sel) == id = sel

\* mutant of UpdateSet: the retry count is incremented with the claim
UpdateSet_CountsRetry(row, now) == [row EXCEPT !.when = NULL, !.done = now, !.retryCount = @ + 1]

\* mutant of UpdateSet: when is not cleared
UpdateSet_KeepsWhen(row, now) == [row EXCEPT !.done = now]

\* SET "when" = NULL, "done" = $2
UpdateSet(row, now) == [row EXCEPT !.when = NULL, !.done = now]

fetchNext(p, queue) ==
    /\ proc[p].pc \in {"idle", "done"}
    /\ ncalls < MaxCalls
    /\ ncalls' = ncalls + 1
    /\ LET i == InstOf(p)
           pr == [Idle EXCEPT !.op = "fetchNext", !.kind = "queue", !.name = queue]
       IN proc' = [proc EXCEPT ![p] =
                     IF MemoId(memoIds[i], "queue", queue) # NULL
                     THEN GotId(pr, MemoId(memoIds[i], "queue", queue), memoIds[i], clock)
                     ELSE [pr EXCEPT !.pc = "getId_select"]]
    /\ UNCHANGED <<store, memos, clock, lastSubscribed, setup>>

\* fetchNextQuery starts: the CTE is evaluated on the statement's snapshot
FetchSelect(p) ==
    /\ proc[p].pc = "fetch_select"
    /\ LET cand == itemId(proc[p].queueId, proc[p].now)
       IN IF cand = {}
          THEN proc' = [proc EXCEPT ![p].pc = "fetch_update", ![p].sel = NULL]
          ELSE \E id \in cand : proc' = [proc EXCEPT ![p].pc = "fetch_update", ![p].sel = id]
    /\ UNCHANGED <<store, memos, clock, ncalls, lastSubscribed, setup>>

\* fetchNextQuery ends: the UPDATE acts on the latest version of the selected row,
\* RETURNING * hands it to the callback
FetchUpdate(p) ==
    /\ proc[p].pc = "fetch_update"
    /\ LET pr == proc[p]
           hit == {id \in DOMAIN items : UpdateWhere(id, items[id], pr.sel)}
       IN /\ items' = [id \in DOMAIN items |-> IF id \in hit THEN UpdateSet(items[id], pr.now) ELSE items[id]]
          /\ proc' = [proc EXCEPT ![p] = Mapping(pr, items', hit, memoNames[InstOf(p)])]
    /\ UNCHANGED <<events, queues, subs, eventSeq, queueSeq, itemSeq, memos, clock, ncalls, lastSubscribed, setup>>

\* ----------------------------------------------------------------- publish
\* a value that has none of a draft's properties (a string, a Date, a number)
NoProps == [name |-> NONE, queue |-> NONE, created |-> NULL, when |-> NULL, retryCount |-> NULL]

\* values of convertEventToQuery: [event.name, event.queue, ..., created, when,
\* event.retryCount] with null for what the event lacks
convertEventToQuery(event) ==
    [name |-> event.name, queue |-> event.queue, created |-> event.created, when |-> event.when,
     retryCount |-> event.retryCount]

\* the own properties _.each visits when it is handed one draft instead of an array
PropertyCount(draft) ==
    2 + (IF draft.created # NULL THEN 1 ELSE 0) + (IF draft.when # NULL THEN 1 ELSE 0)
      + (IF draft.retryCount # NULL THEN 1 ELSE 0)

\* mutant of convertEventsToQuery: the tuples are built in reverse order
convertEventsToQuery_Reversed(input) ==
    IF input.isArray
    THEN [j \in 1..Len(input.list) |-> convertEventToQuery(input.list[Len(input.list) + 1 - j])]
    ELSE [j \in 1..PropertyCount(input.list[1]) |-> convertEventToQuery(NoProps)]

\* convertEventsToQuery(events) is called with the argument as given, not with
\* publishEvents: _.each visits the elements of an array and the property values
\* of an object
convertEventsToQuery(input) ==
    IF input.isArray
    THEN [j \in 1..Len(input.list) |-> convertEventToQuery(input.list[j])]
    ELSE [j \in 1..PropertyCount(input.list[1]) |-> convertEventToQuery(NoProps)]

\* (SELECT id FROM <table> WHERE name = $n) as an expression: the ids it yields
ScalarSubquery(kind, name) == {r.id : r \in {t \in Table(kind) : t.name = name}}

\* the row INSERT INTO wrkr_items ... VALUES builds from one VALUES tuple
InsertedRow(v) ==
    LET e == ScalarSubquery("event", v.name)
        q == ScalarSubquery("queue", v.queue)
    IN [event_id |-> IF e = {} THEN NULL ELSE CHOOSE x \in e : TRUE,
        queue_id |-> IF q = {} THEN NULL ELSE CHOOSE x \in q : TRUE,
        created |-> v.created, when |-> v.when, done |-> NULL, retryCount |-> v.retryCount]

PublishInputs ==
    {[isArray |-> TRUE, list |-> l] : l \in SeqsUpTo(Drafts, MaxBatch)}
    \cup {[isArray |-> FALSE, list |-> <<d>>] : d \in Drafts}

\* publish issues one statement and reads nothing before it: the call, the
\* INSERT ... VALUES (...), (...) RETURNING * and its callback are one step
publish(p, input) ==
    /\ proc[p].pc \in {"idle", "done"}
    /\ ncalls < MaxCalls
    /\ ncalls' = ncalls + 1
    /\ LET values == convertEventsToQuery(input)
           n == Len(values)
           \* VALUES with no tuple is a syntax error; a scalar subquery that
           \* yields more than one row fails the statement
           failed == \/ n = 0
                     \/ \E j \in 1..n : \/ Cardinality(ScalarSubquery("event", values[j].name)) > 1
                                        \/ Cardinality(ScalarSubquery("queue", values[j].queue)) > 1
           pr == [Idle EXCEPT !.op = "publish", !.pc = "done", !.input = input]
       IN IF failed
          THEN /\ proc' = [proc EXCEPT ![p] = [pr EXCEPT !.err = "storeError"]]
               /\ UNCHANGED <<items, itemSeq>>
          ELSE /\ itemSeq + n <= MaxItems
               /\ items' = [id \in DOMAIN items \cup (itemSeq + 1 .. itemSeq + n) |->
                              IF id \in DOMAIN items THEN items[id] ELSE InsertedRow(values[id - itemSeq])]
               /\ itemSeq' = itemSeq + n
               /\ proc' = [proc EXCEPT ![p] =
                             \* publishEvents.length !== result.rowCount
                             IF Len(input.list) # n
                             THEN [pr EXCEPT !.err = "insertErrorNotEnoughEvents"]
                             ELSE [pr EXCEPT !.ids = [j \in 1..n |-> itemSeq + j]]]
    /\ UNCHANGED <<events, queues, subs, eventSeq, queueSeq, memos, clock, lastSubscribed, setup>>

\* ----------------------------------------------------------- find / remove
\* criteria.id given as an array: ids is the array, <<>> when id is no array
IdLists == {<<>>, <<1>>, <<1, 2>>}

\* The criteria tried: an id alone, an array of ids alone, or any combination
\* of name and queue.
Criteria ==
    {c \in [id : {NULL} \cup (1..MaxItems), ids : IdLists, name : {NONE} \cup EventNames,
            queue : {NONE} \cup QueueNames, event_id : {NULL}, queue_id : {NULL}] :
        /\ c.id # NULL => (c.name = NONE /\ c.queue = NONE /\ c.ids = <<>>)
        /\ c.ids # <<>> => (c.name = NONE /\ c.queue = NONE)}

\* mutant of createWhereSQL: the predicate of the last key is left out
createWhereSQL_LastKeyDropped(crit, id, row) ==
    /\ crit.id # NULL => id = crit.id
    /\ crit.event_id # NULL => row.event_id = crit.event_id

\* createWhereSQL: "key" = $n for every key of the criteria, joined by AND
createWhereSQL(crit, id, row) ==
    /\ crit.id # NULL => id = crit.id
    /\ crit.event_id # NULL => row.event_id = crit.event_id
    /\ crit.queue_id # NULL => row.queue_id = crit.queue_id

remove(p, crit) ==
    /\ proc[p].pc \in {"idle", "done"}
    /\ ncalls < MaxCalls
    /\ ncalls' = ncalls + 1
    /\ proc' = [proc EXCEPT ![p] = ResolveName([Idle EXCEPT !.op = "remove", !.crit = crit], memoIds[InstOf(p)])]
    /\ UNCHANGED <<store, memos, clock, lastSubscribed, setup>>

\* mutant of RemoveQuery: the sequence of the ids falls back to the highest id
\* that is left
RemoveQuery_SequenceReset(p) ==
    /\ proc[p].pc = "remove_query"
    /\ LET pr == proc[p]
           keep == {id \in DOMAIN items : ~createWhereSQL(pr.crit, id, items[id])}
       IN /\ items' = [id \in keep |-> items[id]]
          /\ itemSeq' = IF keep = {} THEN 0 ELSE CHOOSE m \in keep : \A id \in keep : id <= m
          /\ proc' = [proc EXCEPT ![p] = [pr EXCEPT !.pc = "done", !.crit = NoCrit]]
    /\ UNCHANGED <<events, queues, subs, eventSeq, queueSeq, memos, clock, ncalls, lastSubscribed, setup>>

\* mutant of RemoveQuery: only pending items are deleted
RemoveQuery_PendingOnly(p) ==
    /\ proc[p].pc = "remove_query"
    /\ LET pr == proc[p]
           keep == {id \in DOMAIN items : ~(createWhereSQL(pr.crit, id, items[id]) /\ items[id].when # NULL)}
       IN /\ items' = [id \in keep |-> items[id]]
          /\ proc' = [proc EXCEPT ![p] = [pr EXCEPT !.pc = "done", !.crit = NoCrit]]
    /\ UNCHANGED <<events, queues, subs, eventSeq, queueSeq, itemSeq, memos, clock, ncalls, lastSubscribed, setup>>

\* removeQuery: DELETE FROM "wrkr_items" <where>
RemoveQuery(p) ==
    /\ proc[p].pc = "remove_query"
    /\ LET pr == proc[p]
           keep == {id \in DOMAIN items : ~createWhereSQL(pr.crit, id, items[id])}
       IN /\ items' = [id \in keep |-> items[id]]
          /\ proc' = [proc EXCEPT ![p] = [pr EXCEPT !.pc = "done", !.crit = NoCrit]]
    /\ UNCHANGED <<events, queues, subs, eventSeq, queueSeq, itemSeq, memos, clock, ncalls, lastSubscribed, setup>>

\* criteria.id.join(','): the text of the ids, separated by commas
JoinIds(ids) == [quoted |-> FALSE, list |-> ids]

\* `'${ids}'`: the text put between single quotes
Quote(text) == [text EXCEPT !.quoted = TRUE]

\* the store reading a text parameter as an integer: only the digits of one
\* number are accepted, anything else is an error (NULL here)
ParseInteger(text) == IF ~text.quoted /\ Len(text.list) = 1 THEN text.list[1] ELSE NULL

\* mutant of find: an array of one id is left as it is
find_ArrayKept(p, crit) ==
    /\ proc[p].pc \in {"idle", "done"}
    /\ ncalls < MaxCalls
    /\ ncalls' = ncalls + 1
    /\ proc' = [proc EXCEPT ![p] =
                  IF Len(crit.ids) > 1
                  THEN [Idle EXCEPT !.op = "find", !.pc = "findId_query", !.crit = crit]
                  ELSE ResolveName([Idle EXCEPT !.op = "find", !.crit = crit], memoIds[InstOf(p)])]
    /\ UNCHANGED <<store, memos, clock, lastSubscribed, setup>>

\* an array of two or more ids takes the findIdQuery path; an array of one id
\* is replaced by its first element
find(p, crit) ==
    /\ proc[p].pc \in {"idle", "done"}
    /\ ncalls < MaxCalls
    /\ ncalls' = ncalls + 1
    /\ proc' = [proc EXCEPT ![p] =
                  IF Len(crit.ids) > 1
                  THEN [Idle EXCEPT !.op = "find", !.pc = "findId_query", !.crit = crit]
                  ELSE ResolveName([Idle EXCEPT !.op = "find",
                                                !.crit = IF Len(crit.ids) = 1
                                                         THEN [crit EXCEPT !.id = crit.ids[1], !.ids = <<>>]
                                                         ELSE crit],
                                   memoIds[InstOf(p)])]
    /\ UNCHANGED <<store, memos, clock, lastSubscribed, setup>>

\* findIdQuery: SELECT * FROM "wrkr_items" WHERE id in ($1), its one parameter
\* being the quoted, comma separated text of the ids
FindIdQuery(p) ==
    /\ proc[p].pc = "findId_query"
    /\ LET pr == proc[p]
           value == ParseInteger(Quote(JoinIds(pr.crit.ids)))
           rows == {id \in DOMAIN items : id = value}
       IN proc' = [proc EXCEPT ![p] =
                     IF value = NULL
                     THEN [pr EXCEPT !.pc = "done", !.crit = NoCrit, !.err = "storeError"]
                     ELSE Mapping(pr, items, rows, memoNames[InstOf(p)])]
    /\ UNCHANGED <<store, memos, clock, ncalls, lastSubscribed, setup>>

\* mutant of FindQuery: "when" > $n appended whatever the criteria
FindQuery_AlwaysFiltered(p) ==
    /\ proc[p].pc = "find_query"
    /\ LET pr == proc[p]
           rows == {id \in DOMAIN items : /\ createWhereSQL(pr.crit, id, items[id])
                                          /\ items[id].when # NULL}
       IN proc' = [proc EXCEPT ![p] = Mapping(pr, items, rows, memoNames[InstOf(p)])]
    /\ UNCHANGED <<store, memos, clock, ncalls, lastSubscribed, setup>>

\* findQuery: SELECT * FROM "wrkr_items" <where>, with "when" > $n appended when
\* the criteria have neither id nor when
FindQuery(p) ==
    /\ proc[p].pc = "find_query"
    /\ LET pr == proc[p]
           rows == {id \in DOMAIN items : /\ createWhereSQL(pr.crit, id, items[id])
                                          /\ pr.crit.id = NULL => items[id].when # NULL}
       IN proc' = [proc EXCEPT ![p] = Mapping(pr, items, rows, memoNames[InstOf(p)])]
    /\ UNCHANGED <<store, memos, clock, ncalls, lastSubscribed, setup>>

\* ----------------------------------------------------------- subscriptions
\* the event names subscriptions are asked for
SubEvents == EventNames \cup {"e2"}

\* subscribe: flw.series resolves the event id, then the queue id, then inserts
subscribe(p, eventName, queueName) ==
    /\ proc[p].pc \in {"idle", "done"}
    /\ ncalls < MaxSubCalls
    /\ ncalls' = ncalls + 1
    /\ proc' = [proc EXCEPT ![p] =
                  ResolveName([Idle EXCEPT !.op = "subscribe", !.event = eventName, !.queue = queueName,
                                           !.crit = [NoCrit EXCEPT !.name = eventName, !.queue = queueName]],
                              memoIds[InstOf(p)])]
    /\ UNCHANGED <<store, memos, clock, lastSubscribed, setup>>

\* subscribeQuery: INSERT INTO "wrkr_subscriptions" ("event_id", "queue_id") VALUES ($1, $2)
\* under PRIMARY KEY ("event_id", "queue_id")
SubscribeInsert(p) ==
    /\ proc[p].pc = "subscribe_query"
    /\ LET pr == proc[p]
           row == [event_id |-> pr.crit.event_id, queue_id |-> pr.crit.queue_id]
       IN IF row \in subs
          THEN /\ proc' = [proc EXCEPT ![p] = [pr EXCEPT !.pc = "done", !.crit = NoCrit, !.err = "unique_violation"]]
               /\ UNCHANGED <<subs, lastSubscribed>>
          ELSE /\ subs' = subs \cup {row}
               /\ lastSubscribed' = lastSubscribed \cup {<<pr.event, pr.queue>>}
               /\ proc' = [proc EXCEPT ![p] = [pr EXCEPT !.pc = "done", !.crit = NoCrit]]
    /\ UNCHANGED <<events, queues, items, eventSeq, queueSeq, itemSeq, memos, clock, ncalls, setup>>

\* unsubscribe: the same series, ending in a DELETE
unsubscribe(p, eventName, queueName) ==
    /\ proc[p].pc \in {"idle", "done"}
    /\ ncalls < MaxSubCalls
    /\ ncalls' = ncalls + 1
    /\ proc' = [proc EXCEPT ![p] =
                  ResolveName([Idle EXCEPT !.op = "unsubscribe", !.event = eventName, !.queue = queueName,
                                           !.crit = [NoCrit EXCEPT !.name = eventName, !.queue = queueName]],
                              memoIds[InstOf(p)])]
    /\ UNCHANGED <<store, memos, clock, lastSubscribed, setup>>

\* unsubscribeQuery: DELETE FROM "wrkr_subscriptions" WHERE "event_id" = $1 AND "queue_id" = $2
UnsubscribeDelete(p) ==
    /\ proc[p].pc = "unsubscribe_query"
    /\ LET pr == proc[p]
       IN /\ subs' = {s \in subs : ~(s.event_id = pr.crit.event_id /\ s.queue_id = pr.crit.queue_id)}
          /\ lastSubscribed' = lastSubscribed \ {<<pr.event, pr.queue>>}
          /\ proc' = [proc EXCEPT ![p] = [pr EXCEPT !.pc = "done", !.crit = NoCrit]]
    /\ UNCHANGED <<events, queues, items, eventSeq, queueSeq, itemSeq, memos, clock, ncalls, setup>>

\* subscriptions: the waterfall resolves the event id, then queries
subscriptions(p, eventName) ==
    /\ proc[p].pc \in {"idle", "done"}
    /\ ncalls < MaxSubCalls
    /\ ncalls' = ncalls + 1
    /\ proc' = [proc EXCEPT ![p] =
                  ResolveName([Idle EXCEPT !.op = "subscriptions", !.event = eventName,
                                           !.crit = [NoCrit EXCEPT !.name = eventName]],
                              memoIds[InstOf(p)])]
    /\ UNCHANGED <<store, memos, clock, lastSubscribed, setup>>

\* mutant of subscriptionsQuery: the WHERE clause dropped
subscriptionsQuery_AllEvents(eventId) ==
    {[queue_id |-> s.queue_id,
      name |-> IF \E r \in queues : r.id = s.queue_id
               THEN (CHOOSE r \in queues : r.id = s.queue_id).name ELSE NONE] :
        s \in subs}

\* subscriptionsQuery: SELECT su.event_id, qu.name FROM wrkr_subscriptions AS su
\* LEFT JOIN wrkr_queues AS qu ON su.queue_id=qu.id WHERE event_id = $1.
\* One joined row per subscription (queue ids are unique keys); qu.name is
\* NULL when no queue row matches.
subscriptionsQuery(eventId) ==
    {[queue_id |-> s.queue_id,
      name |-> IF \E r \in queues : r.id = s.queue_id
               THEN (CHOOSE r \in queues : r.id = s.queue_id).name ELSE NONE] :
        s \in {t \in subs : t.event_id = eventId}}

\* the callback pushes subscription.name of every row: the list of names is
\* kept as its rows (the order of the list is the store's)
SubscriptionsQuery(p) ==
    /\ proc[p].pc = "subscriptions_query"
    /\ proc' = [proc EXCEPT ![p] = [proc[p] EXCEPT !.pc = "done", !.crit = NoCrit,
                                                    !.res = subscriptionsQuery(proc[p].crit.event_id)]]
    /\ UNCHANGED <<store, memos, clock, ncalls, lastSubscribed, setup>>

\* ------------------------------------------------- getId / getName calls
Names(kind) == IF kind = "event" THEN EventNames ELSE QueueNames

\* getId called on its own: the memo answers, or the two queries run
getId(p, kind, name) ==
    /\ proc[p].pc \in {"idle", "done"}
    /\ ncalls < MaxSubCalls
    /\ ncalls' = ncalls + 1
    /\ LET i == InstOf(p)
           pr == [Idle EXCEPT !.op = "getId", !.kind = kind, !.name = name]
       IN proc' = [proc EXCEPT ![p] =
                     IF MemoId(memoIds[i], kind, name) # NULL
                     THEN GotId(pr, MemoId(memoIds[i], kind, name), memoIds[i], clock)
                     ELSE [pr EXCEPT !.pc = "getId_select"]]
    /\ UNCHANGED <<store, memos, clock, lastSubscribed, setup>>

\* the ids getName is asked for: those of the table's rows and one without a row
IdsOf(kind) == {r.id : r \in Table(kind)} \cup {(IF kind = "event" THEN eventSeq ELSE queueSeq) + 1}

\* getName called on its own: a memorized name is returned at once
getName(p, kind, id) ==
    /\ proc[p].pc \in {"idle", "done"}
    /\ ncalls < MaxSubCalls
    /\ ncalls' = ncalls + 1
    /\ LET pr == [Idle EXCEPT !.op = "getName", !.kind = kind, !.id = id]
           memo == MemoName(memoNames[InstOf(p)], kind, id)
       IN proc' = [proc EXCEPT ![p] =
                     IF memo # PENDING
                     THEN [pr EXCEPT !.pc = "done", !.name = memo]
                     ELSE [pr EXCEPT !.pc = "getName_query"]]
    /\ UNCHANGED <<store, memos, clock, lastSubscribed, setup>>

\* the callback of getName's query: resultName = result.rows[0].name is
\* memorized both ways and handed to the caller
GetNameQuery(p) ==
    /\ proc[p].pc = "getName_query"
    /\ LET pr == proc[p]
           i == InstOf(p)
           resultName == getNameResult(pr.kind, pr.id)
       IN IF resultName = "TypeError"
          THEN /\ proc' = [proc EXCEPT ![p].pc = "crashed"]
               /\ UNCHANGED memos
          ELSE /\ memoNames' = [memoNames EXCEPT ![i] = MemoNamesSet(@, pr.kind, pr.id, resultName)]
               /\ memoIds' = [memoIds EXCEPT ![i] = MemoIdsSet(@, pr.kind, resultName, pr.id)]
               /\ proc' = [proc EXCEPT ![p] = [pr EXCEPT !.pc = "done", !.name = resultName]]
    /\ UNCHANGED <<store, clock, ncalls, lastSubscribed, setup>>

\* ---------------------------------------------------------- store errors
\* the round trips an operation can be waiting on
InFlight == {"getId_select", "getId_insert", "fetch_select", "fetch_update", "remove_query", "find_query",
             "findId_query", "subscribe_query", "unsubscribe_query", "subscriptions_query", "map",
             "getName_query"}

\* mutant of QueryFails: the error is delivered along with what the operation
\* has gathered so far
QueryFails_ResultKept(p) ==
    /\ proc[p].pc \in InFlight
    /\ proc' = [proc EXCEPT ![p] = [@ EXCEPT !.pc = "done", !.err = "storeError"]]
    /\ UNCHANGED <<store, memos, clock, ncalls, lastSubscribed, setup>>

\* The round trip the operation waits on fails (the statement has no effect):
\* its callback takes the `if (err) return done(err)` branch, the series or
\* waterfall around it stops, and the operation's callback gets the error alone.
\* In the state "map" the failing round trip is one of getName's lookups.
QueryFails(p) ==
    /\ proc[p].pc \in InFlight
    /\ proc' = [proc EXCEPT ![p] = [Idle EXCEPT !.op = proc[p].op, !.pc = "done", !.err = "storeError",
                                                !.event = proc[p].event, !.queue = proc[p].queue]]
    /\ UNCHANGED <<store, memos, clock, ncalls, lastSubscribed, setup>>

\* publish whose INSERT fails for a reason of the store's
PublishFails(p, input) ==
    /\ proc[p].pc \in {"idle", "done"}
    /\ ncalls < MaxCalls
    /\ ncalls' = ncalls + 1
    /\ proc' = [proc EXCEPT ![p] = [Idle EXCEPT !.op = "publish", !.pc = "done", !.input = input,
                                                !.err = "storeError"]]
    /\ UNCHANGED <<store, memos, clock, lastSubscribed, setup>>

\* ------------------------------------------------- createWhereSQL's object
\* the criteria as createWhereSQL sees them: the keys with their values, in the
\* order of the object's properties
Entries(crit) ==
    SelectSeq(<<[key |-> "id", value |-> crit.id],
                [key |-> "event_id", value |-> crit.event_id],
                [key |-> "queue_id", value |-> crit.queue_id]>>,
              LAMBDA e : e.value # NULL)

\* _.reduce(criteria, ..., 'WHERE '): the text after the first k keys
RECURSIVE Reduce(_, _, _)
Reduce(entries, counter, k) ==
    IF k = 0 THEN "WHERE "
    ELSE LET sql == Reduce(entries, counter, k - 1)
             valueCounter == counter + k - 1
         IN (IF valueCounter # counter THEN sql \o " AND " ELSE sql)
               \o "\"" \o entries[k].key \o "\" = $" \o ToString(valueCounter)

\* the object createWhereSQL returns; values is the array by its indices, which
\* start at 0 (values[valueCounter - 1] = value)
whereSQL(entries, counter) ==
    IF Len(entries) = 0
    THEN [query |-> "", values |-> <<>>, counter |-> counter]
    ELSE [text |-> Reduce(entries, counter, Len(entries)),
          values |-> [j \in (counter - 1)..(counter + Len(entries) - 2) |-> entries[j - counter + 2].value],
          counter |-> counter + Len(entries)]

\* obj[k] of an object, undefined when it has no such property
Prop(obj, k) == IF k \in DOMAIN obj THEN obj[k] ELSE UNDEF

\* `'${newDate.toISOString()}'` of new Date(0, 0, 0)
newDate == "'1899-12-30T00:00:00.000Z'"

\* utils.createWhereSQL(criteria, counter) is called and returns
BuildWhere(p) ==
    /\ proc[p].pc = "createWhereSQL"
    /\ proc' = [proc EXCEPT ![p] = [@ EXCEPT !.pc = "built",
                                             !.whereSQL = whereSQL(Entries(proc[p].crit), proc[p].counter)]]
    /\ UNCHANGED <<store, memos, clock, ncalls, lastSubscribed, setup>>

\* find, which calls createWhereSQL(criteria, 1), appends "when" > $n to the
\* text and the date to the values when the criteria have neither id nor when
AppendWhen(p) ==
    /\ proc[p].pc = "built"
    /\ proc[p].counter = 1
    /\ LET w == proc[p].whereSQL
           n == Len(Entries(proc[p].crit))
           text == Prop(w, "text") \o (IF n = 0 THEN " WHERE " ELSE " AND ")
                      \o "\"when\" > $" \o ToString(w.counter) \o " "
           values == [j \in 0..n |-> IF j = n THEN newDate ELSE w.values[j]]
       IN proc' = [proc EXCEPT ![p] =
                     [@ EXCEPT !.pc = "done",
                               !.whereSQL = IF proc[p].crit.id = NULL
                                            THEN [text |-> text, values |-> values, counter |-> w.counter]
                                            ELSE [text |-> Prop(w, "text"), values |-> w.values, counter |-> w.counter]]]
    /\ UNCHANGED <<store, memos, clock, ncalls, lastSubscribed, setup>>

\* ---------------------------------------------------- connect / disconnect
\* the table checks of checkDatabaseAndTables, in the order of its series
Series == <<"wrkr_events", "wrkr_queues", "wrkr_subscriptions", "wrkr_items">>
TableNames == {Series[j] : j \in 1..Len(Series)}

\* this.pool = null of the constructor
NoPool == [state |-> "null", ends |-> 0]
\* new Pool(this.pgOptions)
NewPool == [state |-> "open", ends |-> 0]

\* createEventsTable: CREATE TABLE and CREATE INDEX sent as one query, which the
\* store runs as one transaction
createEventsTable == <<[stmt |-> "CREATE TABLE", on |-> "wrkr_events"]>>

\* createQueueTable: query, then indexQuery
createQueueTable ==
    <<[stmt |-> "CREATE TABLE", on |-> "wrkr_queues"],
      [stmt |-> "CREATE INDEX", on |-> "wrkr_queues"]>>

\* createSubscriptionsTable: query, alterForeignKeyEventId, alterForeignKeyQueueId
createSubscriptionsTable ==
    <<[stmt |-> "CREATE TABLE", on |-> "wrkr_subscriptions"],
      [stmt |-> "ALTER TABLE", on |-> "wrkr_subscriptions"],
      [stmt |-> "ALTER TABLE", on |-> "wrkr_subscriptions"]>>

\* createItemsTable: query, then the two ALTER TABLE "wrkr_subscriptions" ADD
\* FOREIGN KEY statements, as they are written for the subscriptions table
createItemsTable ==
    <<[stmt |-> "CREATE TABLE", on |-> "wrkr_items"],
      [stmt |-> "ALTER TABLE", on |-> "wrkr_subscriptions"],
      [stmt |-> "ALTER TABLE", on |-> "wrkr_subscriptions"]>>

\* createTable: createTableByTableName[tableName]
createTable(tableName) ==
    CASE tableName = "wrkr_events" -> createEventsTable
      [] tableName = "wrkr_queues" -> createQueueTable
      [] tableName = "wrkr_subscriptions" -> createSubscriptionsTable
      [] OTHER -> createItemsTable

\* whether the store runs the DDL statement: CREATE TABLE fails on a table that
\* exists (42P07), the other statements fail on one that is missing (42P01)
Runs(s) == IF s.stmt = "CREATE TABLE" THEN ~tables[s.on].exists ELSE tables[s.on].exists

\* the tables after the statement
Ran(s) ==
    IF s.stmt = "CREATE TABLE"
    THEN [tables EXCEPT ![s.on] = [@ EXCEPT !.exists = TRUE, !.creates = @ + 1]]
    ELSE [tables EXCEPT ![s.on] = [@ EXCEPT !.alters = @ + 1]]

\* the series goes on to the check of the next table, or ends
NextCheck(pr) ==
    LET j == CHOOSE k \in 1..Len(Series) : Series[k] = pr.table
    IN IF j = Len(Series)
       THEN [pr EXCEPT !.pc = "done", !.table = NONE, !.stmt = NULL]
       ELSE [pr EXCEPT !.pc = "check", !.table = Series[j + 1], !.stmt = NULL]

\* connect: a new pool replaces this.pool and the series of checks starts
connect(p) ==
    /\ proc[p].pc \in {"idle", "done"}
    /\ ncalls < MaxConnCalls
    /\ ncalls' = ncalls + 1
    /\ pool' = [pool EXCEPT ![InstOf(p)] = NewPool]
    /\ proc' = [proc EXCEPT ![p] = [Idle EXCEPT !.op = "connect", !.pc = "check_database"]]
    /\ UNCHANGED <<store, memos, clock, lastSubscribed, database, tables>>

\* database: SELECT VERSION() fails with 3D000 when the database is missing
CheckDatabase(p) ==
    /\ proc[p].pc = "check_database"
    /\ proc' = [proc EXCEPT ![p] = IF database
                                   THEN [@ EXCEPT !.pc = "check", !.table = Series[1]]
                                   ELSE [@ EXCEPT !.pc = "create_database"]]
    /\ UNCHANGED <<store, memos, clock, ncalls, lastSubscribed, setup>>

\* createDatabase: CREATE DATABASE sent by a temporary client, which fails when
\* the database exists by now (42P04)
CreateDatabase(p) ==
    /\ proc[p].pc = "create_database"
    /\ IF database
       THEN /\ proc' = [proc EXCEPT ![p] = [@ EXCEPT !.pc = "done", !.err = "storeError"]]
            /\ UNCHANGED database
       ELSE /\ database' = TRUE
            /\ proc' = [proc EXCEPT ![p] = [@ EXCEPT !.pc = "check", !.table = Series[1]]]
    /\ UNCHANGED <<store, memos, clock, ncalls, lastSubscribed, pool, tables>>

\* events / queues / subscriptions / items with checkHandler: SELECT * FROM the
\* table fails with 42P01 when it is missing, and createTable is called
CheckTable(p) ==
    /\ proc[p].pc = "check"
    /\ proc' = [proc EXCEPT ![p] = IF tables[@.table].exists
                                   THEN NextCheck(@)
                                   ELSE [@ EXCEPT !.pc = "create", !.stmt = 1]]
    /\ UNCHANGED <<store, memos, clock, ncalls, lastSubscribed, setup>>

\* mutant of CheckFails: the error is taken for the missing database or table
CheckFails_TakenForMissing(p) ==
    /\ proc[p].pc \in {"check_database", "check"}
    /\ proc' = [proc EXCEPT ![p] = IF @.pc = "check"
                                   THEN [@ EXCEPT !.pc = "create", !.stmt = 1]
                                   ELSE [@ EXCEPT !.pc = "create_database"]]
    /\ UNCHANGED <<store, memos, clock, ncalls, lastSubscribed, setup>>

\* a check query fails with another error: the series ends with it
CheckFails(p) ==
    /\ proc[p].pc \in {"check_database", "check"}
    /\ proc' = [proc EXCEPT ![p] = [@ EXCEPT !.pc = "done", !.err = "storeError", !.table = NONE]]
    /\ UNCHANGED <<store, memos, clock, ncalls, lastSubscribed, setup>>

\* one statement of the table's create function; an error ends the series
CreateStep(p) ==
    /\ proc[p].pc = "create"
    /\ LET pr == proc[p]
           statements == createTable(pr.table)
           s == statements[pr.stmt]
       IN IF Runs(s)
          THEN /\ tables' = Ran(s)
               /\ proc' = [proc EXCEPT ![p] = IF pr.stmt = Len(statements)
                                              THEN NextCheck(pr)
                                              ELSE [pr EXCEPT !.stmt = pr.stmt + 1]]
          ELSE /\ proc' = [proc EXCEPT ![p] = [pr EXCEPT !.pc = "done", !.err = "storeError",
                                                          !.table = NONE, !.stmt = NULL]]
               /\ UNCHANGED tables
    /\ UNCHANGED <<store, memos, clock, ncalls, lastSubscribed, pool, database>>

\* disconnect: nothing to do while this.pool is null; otherwise this.pool.end(done),
\* this.pool staying what it is.  A pool that was ended before either ends
\* again or answers with an error, depending on the version of the pool library.
disconnect(p) ==
    /\ proc[p].pc \in {"idle", "done"}
    /\ ncalls < MaxConnCalls
    /\ ncalls' = ncalls + 1
    /\ LET i == InstOf(p)
       IN IF pool[i].state = "null"
          THEN /\ proc' = [proc EXCEPT ![p] = [Idle EXCEPT !.op = "disconnect", !.pc = "done"]]
               /\ UNCHANGED pool
          ELSE /\ pool' = [pool EXCEPT ![i] = [state |-> "ended", ends |-> @.ends + 1]]
               /\ \E e \in (IF pool[i].state = "ended" THEN {NONE, "endedTwice"} ELSE {NONE}) :
                     proc' = [proc EXCEPT ![p] = [Idle EXCEPT !.op = "disconnect", !.pc = "done", !.err = e]]
    /\ UNCHANGED <<store, memos, clock, lastSubscribed, database, tables>>

\* ---------------------------------------------------------- specification
\* the rows earlier subscribe calls leave in a name table: one per name
RECURSIVE NameRows(_, _)
NameRows(names, n) ==
    IF names = {} THEN {}
    ELSE LET x == CHOOSE y \in names : TRUE
         IN {[id |-> n + 1, name |-> x]} \cup NameRows(names \ {x}, n + 1)

\* The adapter is constructed with empty memos; the store is as connect built it
\* (empty tables) or as the subscribe calls of earlier processes left it.
Init ==
    /\ \/ /\ events = {} /\ queues = {}
          /\ eventSeq = 0 /\ queueSeq = 0
       \/ /\ events = NameRows(EventNames, 0) /\ queues = NameRows(QueueNames, 0)
          /\ eventSeq = Cardinality(EventNames) /\ queueSeq = Cardinality(QueueNames)
    /\ items = <<>>
    /\ itemSeq = 0
    /\ subs = {}
    /\ lastSubscribed = {}
    /\ memoIds = [i \in Insts |-> [k \in Kinds |-> <<>>]]
    /\ memoNames = [i \in Insts |-> [k \in Kinds |-> <<>>]]
    /\ clock = 1
    /\ proc = [p \in Procs |-> Idle]
    /\ ncalls = 0
    /\ pool = [i \in Insts |-> NewPool]
    /\ database = TRUE
    /\ tables = [t \in TableNames |-> [exists |-> TRUE, creates |-> 0, alters |-> 0]]

Next ==
    \/ Tick
    \/ \E p \in Procs :
         \/ GetIdSelect(p)
         \/ GetIdInsert(p)
         \/ FieldMap(p)
         \/ \E q \in QueueNames : fetchNext(p, q)
         \/ FetchSelect(p)
         \/ FetchUpdate(p)
         \/ RemoveQuery(p)
         \/ FindQuery(p)
         \/ FindIdQuery(p)
    \/ \E p \in Producers :
         \/ \E input \in PublishInputs : publish(p, input)
         \/ \E crit \in Criteria : remove(p, crit)
         \/ \E crit \in Criteria : find(p, crit)

Spec == Init /\ [][Next]_vars

\* N due pending items on one queue the event is subscribed to, and every caller
\* about to call fetchNext on it once, nothing else running
FetchQueue == "q1"

NameId(kind, name) == (CHOOSE r \in Table(kind) : r.name = name).id

InitFetch ==
    /\ events = NameRows(EventNames, 0) /\ queues = NameRows(QueueNames, 0)
    /\ eventSeq = Cardinality(EventNames) /\ queueSeq = Cardinality(QueueNames)
    /\ \E n \in 0..(IF MaxItems < NProcs THEN MaxItems ELSE NProcs) :
         /\ itemSeq = n
         /\ items \in [1..n -> {r \in [event_id : {NameId("event", "e1")}, queue_id : {NameId("queue", FetchQueue)},
                                      created : {NULL} \cup Times, when : {1}, done : {NULL},
                                      retryCount : {1}] : TRUE}]
    /\ subs = {[event_id |-> NameId("event", "e1"), queue_id |-> NameId("queue", FetchQueue)]}
    /\ lastSubscribed = {<<"e1", FetchQueue>>}
    /\ memoIds = [i \in Insts |-> [k \in Kinds |-> <<>>]]
    /\ memoNames = [i \in Insts |-> [k \in Kinds |-> <<>>]]
    /\ clock = 1
    /\ proc = [p \in Procs |-> Idle]
    /\ ncalls = 0
    /\ pool = [i \in Insts |-> NewPool]
    /\ database = TRUE
    /\ tables = [t \in TableNames |-> [exists |-> TRUE, creates |-> 0, alters |-> 0]]

NextFetch ==
    \E p \in Procs :
       \/ proc[p].pc = "idle" /\ fetchNext(p, FetchQueue)
       \/ GetIdSelect(p)
       \/ FetchSelect(p)
       \/ FetchUpdate(p)
       \/ FieldMap(p)

SpecFetch == InitFetch /\ [][NextFetch]_vars

\* the same queue drained by sequential calls: a caller calls fetchNext only
\* when no call is in flight, and every call that can take a step takes it
NextDrain ==
    \/ Tick
    \/ \E p \in Procs :
         \/ (\A q \in Procs : proc[q].pc \in {"idle", "done"}) /\ fetchNext(p, FetchQueue)
         \/ GetIdSelect(p)
         \/ FetchSelect(p)
         \/ FetchUpdate(p)
         \/ FieldMap(p)

SpecDrain == InitFetch /\ [][NextDrain]_vars /\ WF_vars(NextDrain)

\* the callers subscribe to, unsubscribe from and list the subscriptions of
\* events, nothing else running
NextSub ==
    \E p \in Procs :
       \/ \E e \in EventNames, q \in QueueNames : subscribe(p, e, q)
       \/ \E e \in EventNames, q \in QueueNames : unsubscribe(p, e, q)
       \/ \E e \in SubEvents : subscriptions(p, e)
       \/ GetIdSelect(p)
       \/ GetIdInsert(p)
       \/ SubscribeInsert(p)
       \/ UnsubscribeDelete(p)
       \/ SubscriptionsQuery(p)

SpecSub == Init /\ [][NextSub]_vars

\* the callers resolve names to ids and ids to names, nothing else running
NextNames ==
    \E p \in Procs :
       \/ \E k \in Kinds : \E n \in Names(k) : getId(p, k, n)
       \/ \E k \in Kinds : \E id \in IdsOf(k) : getName(p, k, id)
       \/ GetIdSelect(p)
       \/ GetIdInsert(p)
       \/ GetNameQuery(p)

SpecNames == Init /\ [][NextNames]_vars

\* the constructor: the caller replaces its instance by a new one (empty memos),
\* which it connects to the same database
DbWrkrPostgreSQL(p) ==
    /\ proc[p].pc \in {"idle", "done"}
    /\ \E k \in Kinds : memoIds[InstOf(p)][k] # <<>>
    /\ memoIds' = [memoIds EXCEPT ![InstOf(p)] = [k \in Kinds |-> <<>>]]
    /\ memoNames' = [memoNames EXCEPT ![InstOf(p)] = [k \in Kinds |-> <<>>]]
    /\ pool' = [pool EXCEPT ![InstOf(p)] = NewPool]
    /\ proc' = [proc EXCEPT ![p] = Idle]
    /\ UNCHANGED <<store, clock, ncalls, lastSubscribed, database, tables>>

\* the callers resolve names to ids on instances that come and go
NextMiss ==
    \E p \in Procs :
       \/ \E k \in Kinds : \E n \in Names(k) : getId(p, k, n)
       \/ GetIdSelect(p)
       \/ GetIdInsert(p)
       \/ DbWrkrPostgreSQL(p)

SpecMiss == Init /\ [][NextMiss]_vars

\* the instances are constructed and the callers connect and disconnect them;
\* the database is missing, or it holds any subset of the tables
InitConn ==
    /\ events = {} /\ queues = {} /\ items = <<>> /\ subs = {}
    /\ eventSeq = 0 /\ queueSeq = 0 /\ itemSeq = 0
    /\ lastSubscribed = {}
    /\ memoIds = [i \in Insts |-> [k \in Kinds |-> <<>>]]
    /\ memoNames = [i \in Insts |-> [k \in Kinds |-> <<>>]]
    /\ clock = 1
    /\ proc = [p \in Procs |-> Idle]
    /\ ncalls = 0
    /\ pool = [i \in Insts |-> NoPool]
    /\ database \in BOOLEAN
    /\ \E existing \in SUBSET TableNames :
          /\ ~database => existing = {}
          /\ tables = [t \in TableNames |-> [exists |-> t \in existing, creates |-> 0, alters |-> 0]]

NextConn ==
    \E p \in Procs :
       \/ connect(p)
       \/ CheckDatabase(p)
       \/ CreateDatabase(p)
       \/ CheckTable(p)
       \/ CheckFails(p)
       \/ CreateStep(p)
       \/ disconnect(p)

SpecConn == InitConn /\ [][NextConn]_vars

\* the start counters createWhereSQL is called with
Counters == {1, 2}

\* the criteria createWhereSQL is handed: name and queue are resolved, any of
\* id, event_id and queue_id is present
WhereCriteria ==
    [id : {NULL} \cup (1..MaxItems), ids : {<<>>}, name : {NONE}, queue : {NONE},
     event_id : {NULL, 1}, queue_id : {NULL, 1, 2}]

\* every caller is about to call createWhereSQL with some criteria and counter
InitWhere ==
    /\ events = NameRows(EventNames, 0) /\ queues = NameRows(QueueNames, 0)
    /\ eventSeq = Cardinality(EventNames) /\ queueSeq = Cardinality(QueueNames)
    /\ items = <<>> /\ itemSeq = 0 /\ subs = {} /\ lastSubscribed = {}
    /\ memoIds = [i \in Insts |-> [k \in Kinds |-> <<>>]]
    /\ memoNames = [i \in Insts |-> [k \in Kinds |-> <<>>]]
    /\ clock = 1
    /\ proc \in [Procs -> {[Idle EXCEPT !.op = "find", !.pc = "createWhereSQL", !.crit = c, !.counter = n] :
                              c \in WhereCriteria, n \in Counters}]
    /\ ncalls = 0
    /\ pool = [i \in Insts |-> NewPool]
    /\ database = TRUE
    /\ tables = [t \in TableNames |-> [exists |-> TRUE, creates |-> 0, alters |-> 0]]

NextWhere ==
    \E p \in Procs :
       \/ BuildWhere(p)
       \/ AppendWhen(p)

SpecWhere == InitWhere /\ [][NextWhere]_vars

\* each caller calls one public operation, and any of its round trips may fail
NextFail ==
    \E p \in Procs :
       \/ /\ proc[p].pc = "idle"
          /\ \/ \E e \in EventNames, q \in QueueNames : subscribe(p, e, q)
             \/ \E e \in EventNames, q \in QueueNames : unsubscribe(p, e, q)
             \/ \E e \in EventNames : subscriptions(p, e)
             \/ \E input \in PublishInputs : publish(p, input)
             \/ \E input \in PublishInputs : PublishFails(p, input)
             \/ \E q \in QueueNames : fetchNext(p, q)
             \/ \E crit \in Criteria : find(p, crit)
             \/ \E crit \in Criteria : remove(p, crit)
       \/ GetIdSelect(p)
       \/ GetIdInsert(p)
       \/ SubscribeInsert(p)
       \/ UnsubscribeDelete(p)
       \/ SubscriptionsQuery(p)
       \/ FetchSelect(p)
       \/ FetchUpdate(p)
       \/ FindQuery(p)
       \/ FindIdQuery(p)
       \/ RemoveQuery(p)
       \/ FieldMap(p)
       \/ QueryFails(p)

SpecFail == Init /\ [][NextFail]_vars

\* ============================================================== properties
IsPending(row) == row.when # NULL /\ row.done = NULL
IsClaimed(row) == row.when = NULL /\ row.done # NULL
ExactlyOneOfWhenDone(row) == (row.when # NULL) # (row.done # NULL)
\* the item is pending on the queue and due at the time `now`
IsDue(row, queueId, now) == row.queue_id = queueId /\ IsPending(row) /\ row.when <= now
\* the ids of the items a completed fetchNext call handed to its callback
Fetched(p) == IF proc[p].op = "fetchNext" /\ proc[p].pc = "done" THEN {m.id : m \in proc[p].res} ELSE {}
\* the steps of caller p's fetchNextQuery
SelectStep(p) == proc[p].pc = "fetch_select" /\ proc'[p].pc = "fetch_update"
UpdateStep(p) == proc[p].pc = "fetch_update" /\ proc'[p].pc # "fetch_update"
\* caller p calls publish (an operation starts and no other caller moves)
PublishStep(p) ==
    /\ ncalls' = ncalls + 1
    /\ proc'[p].op = "publish"
    /\ \A q \in Procs \ {p} : proc'[q] = proc[q]

\* C1: no work item is returned to more than one of the callers whose fetchNext
\* calls ran concurrently on the same queue.
C1_NoItemReturnedTwice ==
    \A p1, p2 \in Procs : p1 # p2 => Fetched(p1) \cap Fetched(p2) = {}

\* C2: with N items pending and due on one queue and M >= N concurrent fetchNext
\* calls on it, once all calls have completed exactly N of them returned an item
\* and every one of the N items was returned.
C2_EachItemToExactlyOneCaller ==
    (\A p \in Procs : proc[p].pc = "done") =>
        /\ Cardinality({p \in Procs : Fetched(p) # {}}) = Cardinality(DOMAIN items)
        /\ UNION {Fetched(p) : p \in Procs} = DOMAIN items

C4_ClaimedIsTerminal ==
    [][/\ \A id \in DOMAIN items \cap DOMAIN items' : IsClaimed(items[id]) => IsClaimed(items'[id])
       /\ \A id \in DOMAIN items' \ DOMAIN items : id > itemSeq
       /\ itemSeq' >= itemSeq
       /\ \A p \in Procs :
            /\ (SelectStep(p) /\ proc'[p].sel # NULL) =>
                  (proc'[p].sel \in DOMAIN items /\ ~IsClaimed(items[proc'[p].sel]))
            /\ UpdateStep(p) => {m.id : m \in proc'[p].res} \subseteq {proc[p].sel}
            /\ (proc[p].pc = "map" /\ proc'[p].pc # "map") =>
                  {m.id : m \in proc'[p].res} \subseteq {m.id : m \in proc[p].res}]_vars

\* C4's case: an item is claimed and a fetchNext statement issued on its queue at
\* or after the time of the claim has selected nothing
C4_Witness ==
    \E id \in DOMAIN items, p \in Procs :
        /\ IsClaimed(items[id])
        /\ proc[p].pc = "fetch_update" /\ proc[p].sel = NULL
        /\ proc[p].queueId = items[id].queue_id /\ items[id].done <= proc[p].now

\* the pending items due for caller p's fetchNext statement
DueFor(p) == {id \in DOMAIN items : IsDue(items[id], proc[p].queueId, proc[p].now)}

\* C5: when several pending items of the queue are due, fetchNext picks
\* the one with the latest created timestamp.
C5_PicksLatestCreated ==
    [][\A p \in Procs :
         (SelectStep(p) /\ Cardinality(DueFor(p)) >= 2) =>
            /\ proc'[p].sel \in DueFor(p)
            /\ \A j \in DueFor(p) : items[j].created # NULL =>
                  /\ items[proc'[p].sel].created # NULL
                  /\ items[j].created <= items[proc'[p].sel].created]_vars

\* C6: the item a fetchNext(queue) statement selects belongs to that queue, is
\* pending and has when <= the call's time; its UPDATE changes no item but the
\* selected one, never one of another queue or with a when in the future, and
\* the call returns no item but the selected one.
C6_OnlyDueItemsOfTheQueue ==
    [][\A p \in Procs :
         /\ \A q \in QueueNames : (fetchNext(p, q) /\ proc'[p].pc = "fetch_select") =>
               [id |-> proc'[p].queueId, name |-> q] \in queues
         /\ (proc[p].op = "fetchNext" /\ proc[p].pc \in {"getId_select", "getId_insert"}
               /\ proc'[p].pc = "fetch_select") =>
               [id |-> proc'[p].queueId, name |-> proc[p].name] \in queues'
         /\ proc'[p].pc = "fetch_select" => proc'[p].now <= clock'
         /\ (SelectStep(p) /\ proc'[p].sel # NULL) => proc'[p].sel \in DueFor(p)
         /\ UpdateStep(p) =>
               /\ DOMAIN items' = DOMAIN items
               /\ \A id \in DOMAIN items : items'[id] # items[id] =>
                     /\ id = proc[p].sel
                     /\ items[id].queue_id = proc[p].queueId
                     /\ ~(items[id].when # NULL /\ items[id].when > proc[p].now)
               /\ {m.id : m \in proc'[p].res} \subseteq {proc[p].sel}]_vars

\* C6's case: a statement has selected an item while another pending item, of
\* another queue or not yet due, is stored
C6_Witness ==
    \E p \in Procs, j \in DOMAIN items :
        /\ proc[p].pc = "fetch_update" /\ proc[p].sel \in DOMAIN items
        /\ IsPending(items[j]) /\ j \notin DueFor(p)

\* C7: when no pending item of the queue is due, fetchNext selects nothing,
\* changes no work item and completes without error and without an item.
C7_NothingDueReturnsNone ==
    [][\A p \in Procs :
         /\ (SelectStep(p) /\ DueFor(p) = {}) => proc'[p].sel = NULL
         /\ (UpdateStep(p) /\ proc[p].sel = NULL) =>
               /\ items' = items
               /\ proc'[p].pc = "done" /\ proc'[p].res = {} /\ proc'[p].err = NONE]_vars

\* C7's case: a statement has selected nothing although the queue holds a
\* pending item, which is not due yet
C7_Witness ==
    \E p \in Procs, j \in DOMAIN items :
        /\ proc[p].pc = "fetch_update" /\ proc[p].sel = NULL
        /\ items[j].queue_id = proc[p].queueId /\ IsPending(items[j]) /\ items[j].when > proc[p].now

\* the ids of the rows of a name table with this name, NULL when there is none
RefsOf(kind, name) ==
    IF \E r \in Table(kind) : r.name = name THEN {r.id : r \in {t \in Table(kind) : t.name = name}} ELSE {NULL}

\* the row is the one stored for the draft
StoredFrom(row, draft) ==
    /\ row.created = draft.created /\ row.when = draft.when /\ row.done = NULL
    /\ row.retryCount = draft.retryCount
    /\ row.event_id \in RefsOf("event", draft.name)
    /\ row.queue_id \in RefsOf("queue", draft.queue)

\* C8: a successful publish of an array of k drafts returns k ids, the j-th id
\* being the id of the new item stored from the j-th draft, and the store holds
\* exactly these k items more than before.
C8_PublishReturnsIdsInOrder ==
    [][\A p \in Procs :
         (PublishStep(p) /\ proc'[p].input.isArray /\ proc'[p].err = NONE) =>
            LET list == proc'[p].input.list
                ids == proc'[p].ids
            IN /\ Len(ids) = Len(list)
               /\ \A j, k \in 1..Len(ids) : j # k => ids[j] # ids[k]
               /\ {ids[j] : j \in 1..Len(ids)} \cap DOMAIN items = {}
               /\ DOMAIN items' = DOMAIN items \cup {ids[j] : j \in 1..Len(ids)}
               /\ \A id \in DOMAIN items : items'[id] = items[id]
               /\ \A j \in 1..Len(ids) : StoredFrom(items'[ids[j]], list[j])]_vars

\* C8's case: a publish of two different drafts has returned two ids
C8_Witness ==
    \E p \in Procs :
        /\ proc[p].op = "publish" /\ proc[p].pc = "done" /\ proc[p].err = NONE
        /\ proc[p].input.isArray /\ Len(proc[p].ids) = 2
        /\ proc[p].input.list[1] # proc[p].input.list[2]
        /\ \A j \in 1..2 : proc[p].ids[j] \in DOMAIN items /\ StoredFrom(items[proc[p].ids[j]], proc[p].input.list[j])

\* C9: publish is all-or-nothing: a publish that completes with an error delivers
\* no id list and leaves no item in the store.
C9_FailedPublishStoresNothing ==
    [][\A p \in Procs :
         (PublishStep(p) /\ proc'[p].err # NONE) => (proc'[p].ids = <<>> /\ items' = items)]_vars

\* C10: every stored work item references an existing event row and an existing
\* queue row.
C10_ItemsReferenceEventAndQueue ==
    \A id \in DOMAIN items :
        /\ \E r \in events : r.id = items[id].event_id
        /\ \E r \in queues : r.id = items[id].queue_id

\* the name of the row with this id in a name table
NameOf(kind, id) == (CHOOSE r \in Table(kind) : r.id = id).name

\* a subscription binds the event name to the queue name
Bound(eventName, queueName) ==
    \E s \in subs : NameOf("event", s.event_id) = eventName /\ NameOf("queue", s.queue_id) = queueName

SubscribeStep(p) == proc[p].pc = "subscribe_query" /\ proc'[p].pc = "done"
UnsubscribeStep(p) == proc[p].pc = "unsubscribe_query" /\ proc'[p].pc = "done"
SubscriptionsStep(p) == proc[p].pc = "subscriptions_query" /\ proc'[p].pc = "done"

\* C11: in every reachable state a given (event name, queue name) pair is bound
\* by at most one subscription.
C11_PairBoundAtMostOnce ==
    \A s1, s2 \in subs :
        (/\ NameOf("event", s1.event_id) = NameOf("event", s2.event_id)
         /\ NameOf("queue", s1.queue_id) = NameOf("queue", s2.queue_id)) => s1 = s2

\* C12: a subscribe(event, queue) whose insert runs while the pair is bound
\* completes with an error and leaves the subscriptions unchanged.
C12_SubscribeTwiceFails ==
    [][\A p \in Procs :
         (SubscribeStep(p) /\ Bound(proc[p].event, proc[p].queue)) =>
            (proc'[p].err # NONE /\ subs' = subs)]_vars

\* C13: unsubscribe never fails, and an unsubscribe(e, q) that follows an
\* unsubscribe(e, q), or is made on a pair that was never subscribed, leaves the
\* subscriptions as they are.
C13_UnsubscribeIdempotent ==
    [][\A p \in Procs :
         UnsubscribeStep(p) =>
            /\ proc'[p].err = NONE
            /\ <<proc[p].event, proc[p].queue>> \notin lastSubscribed => subs' = subs]_vars

\* C14: an unsubscribe called with a name that has no row in the store fails
\* (NotFound) and creates no event or queue row.
C14_UnsubscribeUnknownNameFails ==
    [][\A p \in Procs :
         (proc[p].op = "unsubscribe" /\ proc'[p] # proc[p]) =>
            /\ events' = events /\ queues' = queues
            /\ proc[p].pc = "getId_insert" => proc'[p].err # NONE]_vars

\* C15: subscriptions(event) for an event name that no subscription is bound to
\* (one never subscribed to) completes without error with an empty list, and
\* no step of subscriptions fails.
C15_UnknownEventNoSubscriptions ==
    [][\A p \in Procs :
         /\ proc'[p].op = "subscriptions" => (proc'[p].err = NONE /\ proc'[p].pc # "crashed")
         /\ (SubscriptionsStep(p) /\ ~\E q \in QueueNames : Bound(proc[p].event, q)) =>
               proc'[p].res = {}]_vars

\* C15's case: subscriptions of an event that has never been subscribed to has
\* returned the empty list while another event has a subscription
C15_Witness ==
    \E p \in Procs :
        /\ proc[p].op = "subscriptions" /\ proc[p].pc = "done" /\ proc[p].event \notin EventNames
        /\ proc[p].res = {} /\ proc[p].err = NONE
        /\ subs # {}

\* C16: subscriptions(e) returns exactly the queue names q for which the most
\* recent successful subscribe / unsubscribe call on (e, q) was a subscribe,
\* each name once.
C16_SubscriptionsAreLastSubscribed ==
    [][\A p \in Procs :
         SubscriptionsStep(p) =>
            /\ \A x, y \in proc'[p].res : x.name = y.name => x = y
            /\ {x.name : x \in proc'[p].res} = {q \in QueueNames : <<proc[p].event, q>> \in lastSubscribed}]_vars

\* C17: getName(kind, id) on the id of a stored row yields the row's name,
\* memoized or not, and a getId(kind, n) of an instance that has resolved n
\* before returns the id it returned before.
C17_IdNameRoundTrip ==
    [][\A p \in Procs :
         /\ (proc'[p] # proc[p] /\ proc'[p].op = "getName" /\ proc'[p].pc \in {"done", "crashed"}
               /\ \E r \in Table(proc'[p].kind) : r.id = proc'[p].id) =>
               (proc'[p].pc = "done" /\ proc'[p].name = NameOf(proc'[p].kind, proc'[p].id))
         /\ (proc'[p] # proc[p] /\ proc'[p].op = "getId" /\ proc'[p].pc = "done"
               /\ proc'[p].name \in DOMAIN memoIds[InstOf(p)][proc'[p].kind]) =>
               proc'[p].id = memoIds[InstOf(p)][proc'[p].kind][proc'[p].name]]_vars

\* C18: in every reachable state the events table holds at most one row per
\* event name and the queues table at most one row per queue name.
C18_OneRowPerName ==
    \A k \in Kinds : \A r1, r2 \in Table(k) : r1.name = r2.name => r1 = r2

FindStep(p) == proc[p].pc = "find_query" /\ proc'[p].pc # "find_query"

\* C19: a find without id returns no item that is not pending (a find with
\* empty criteria returns every pending item), a find({id: X}) selects item X
\* whether it is pending or claimed, and a find that completes delivers the
\* items its query selected.
C19_ImplicitPendingFilter ==
    [][\A p \in Procs :
         /\ FindStep(p) =>
               LET c == proc[p].crit
                   found == {m.id : m \in proc'[p].res}
               IN /\ found \subseteq DOMAIN items
                  /\ c.id = NULL => \A id \in found : IsPending(items[id])
                  /\ c = NoCrit => found = {id \in DOMAIN items : items[id].when # NULL}
                  /\ (c.id # NULL /\ c.id \in DOMAIN items) => found = {c.id}
                  /\ \A m \in proc'[p].res : m.when = items[m.id].when /\ m.done = items[m.id].done
         /\ (proc[p].op = "find" /\ proc[p].pc = "map" /\ proc'[p].pc = "done") =>
               {<<m.id, m.when, m.done>> : m \in proc'[p].res} = {<<m.id, m.when, m.done>> : m \in proc[p].res}]_vars

\* C19's case: a find has returned a claimed item (found by its id) while a
\* pending item is stored too
C19_Witness ==
    \E p \in Procs :
        /\ proc[p].op = "find" /\ proc[p].pc = "done" /\ proc[p].err = NONE
        /\ \E m \in proc[p].res : m.when = NULL /\ m.done # NULL /\ m.id \in DOMAIN items /\ IsClaimed(items[m.id])

FindIdStep(p) == proc[p].pc = "findId_query" /\ proc'[p].pc # "findId_query"

\* C20: find({id: L}) with a list L of two or more ids completes without error
\* and selects exactly the stored items whose id is in L.
C20_FindAnyOfIds ==
    [][\A p \in Procs :
         FindIdStep(p) =>
            /\ proc'[p].err = NONE
            /\ {m.id : m \in proc'[p].res} =
                   {id \in DOMAIN items : \E j \in 1..Len(proc[p].crit.ids) : proc[p].crit.ids[j] = id}]_vars

\* C21: for every id x, find({id: [x]}) and find({id: x}) return identical
\* results: a call with the one-element list leaves the caller in the state the
\* call with the bare id leaves it in, and the query that follows selects the
\* item x and nothing else.
C21_FindSingletonListAsId ==
    [][\A p \in Procs :
         /\ \A crit \in {c \in Criteria : Len(c.ids) = 1} :
               find(p, crit) =>
                  /\ find(p, [crit EXCEPT !.id = crit.ids[1], !.ids = <<>>])
                  /\ proc'[p].crit.id = crit.ids[1] /\ proc'[p].crit.ids = <<>>
         /\ (FindStep(p) /\ proc[p].crit.id # NULL) =>
               {m.id : m \in proc'[p].res} = {proc[p].crit.id} \cap DOMAIN items]_vars

\* C21's case: a find by the id of a claimed item is about to run its query,
\* the state find({id: [x]}) and find({id: x}) both lead to
C21_Witness ==
    \E p \in Procs :
        /\ proc[p].op = "find" /\ proc[p].pc = "find_query"
        /\ proc[p].crit.id \in DOMAIN items /\ proc[p].crit.ids = <<>>
        /\ IsClaimed(items[proc[p].crit.id])

RemoveStep(p) == proc[p].pc = "remove_query" /\ proc'[p].pc = "done"

\* the item equals the criteria in every field they have
MatchesAll(crit, id, row) ==
    /\ crit.id # NULL => id = crit.id
    /\ crit.event_id # NULL => (row.event_id # NULL /\ row.event_id = crit.event_id)
    /\ crit.queue_id # NULL => (row.queue_id # NULL /\ row.queue_id = crit.queue_id)

C26_LookupsInsertNoName ==
    [][\A p \in Procs :
         (proc[p].op \in {"subscriptions", "fetchNext", "find", "remove"} /\ proc'[p] # proc[p]
            /\ proc[p].pc \notin {"idle", "done", "crashed"}) =>
            (events' = events /\ queues' = queues)]_vars

\* C27: the statement of a fetchNext call that returns an item sets when to null
\* and done to the time the call read when it issued the statement, on the
\* selected item only: every other field of this item, every other item and
\* the subscriptions stay as they are, the record returned carries the item's
\* id, created and retryCount, and no other step of fetchNext changes an item
\* or a subscription.
C27_FetchChangesOnlyWhenAndDone ==
    [][\A p \in Procs :
         /\ (proc'[p].pc = "fetch_select" /\ proc[p].pc # "fetch_select") => proc'[p].now = clock
         /\ (UpdateStep(p) /\ proc'[p].res # {}) =>
               /\ proc[p].sel \in DOMAIN items
               /\ items' = [items EXCEPT ![proc[p].sel] = [@ EXCEPT !.when = NULL, !.done = proc[p].now]]
               /\ subs' = subs
               /\ \A f \in proc'[p].res :
                     /\ f.id = proc[p].sel /\ f.when = NULL /\ f.done = proc[p].now
                     /\ f.created = items[f.id].created /\ f.retryCount = items[f.id].retryCount
         /\ (proc'[p].op = "fetchNext" /\ proc'[p] # proc[p] /\ ~UpdateStep(p)) =>
               (items' = items /\ subs' = subs)]_vars

\* C27's case: a fetchNext call has returned an item with a retry count, which
\* is stored claimed at the call's time, while another item is still pending
\* and a subscription is stored
C27_Witness ==
    \E p \in Procs, j \in DOMAIN items :
        /\ proc[p].op = "fetchNext" /\ proc[p].pc = "done" /\ subs # {}
        /\ \E f \in proc[p].res :
              /\ f.id \in DOMAIN items /\ f.id # j /\ f.retryCount = 1
              /\ IsClaimed(items[f.id]) /\ items[f.id].done = f.done /\ items[f.id].retryCount = 1
        /\ IsPending(items[j])

\* C28: a fetchNext call that has claimed an item stored with the references of
\* its event and queue names completes with a record that carries the event
\* name and the queue name of the item, its retryCount, done set and no when.
C28_PublishFetchRoundTrip ==
    [][\A p \in Procs :
         (/\ proc[p].op = "fetchNext" /\ proc[p].pc \in {"fetch_update", "map"}
          /\ proc'[p].pc \in {"done", "crashed"}
          /\ \E f \in (IF proc[p].pc = "map" THEN proc[p].res ELSE {[id |-> proc[p].sel]}) :
                f.id \in DOMAIN items' /\ items'[f.id].event_id # NULL /\ items'[f.id].queue_id # NULL) =>
            /\ proc'[p].pc = "done" /\ proc'[p].err = NONE
            /\ \A f \in proc'[p].res :
                  f.id \in DOMAIN items' =>
                     /\ f.name = NameOf("event", items'[f.id].event_id)
                     /\ f.queue = NameOf("queue", items'[f.id].queue_id)
                     /\ f.retryCount = items'[f.id].retryCount
                     /\ f.done # NULL /\ f.when = NULL]_vars

\* C29: a publish of one draft that is not wrapped in an array completes
\* without error with a list of one id, the id of the one new item, which is
\* stored from the draft, and no other item is added or changed.
C29_BareDraftIsOneElementArray ==
    [][\A p \in Procs :
         (PublishStep(p) /\ ~proc'[p].input.isArray) =>
            /\ proc'[p].err = NONE
            /\ Len(proc'[p].ids) = 1
            /\ DOMAIN items' = DOMAIN items \cup {proc'[p].ids[1]}
            /\ proc'[p].ids[1] \notin DOMAIN items
            /\ \A id \in DOMAIN items : items'[id] = items[id]
            /\ StoredFrom(items'[proc'[p].ids[1]], proc'[p].input.list[1])]_vars

\* C30: memo soundness. Every entry name -> id of an instance's forward memo and
\* every entry id -> name of its reverse memo is a row (id, name) of the table,
\* and the two memos of a kind are inverse to each other.
C30_MemoSound ==
    \A i \in Insts, k \in Kinds :
        LET mi == memoIds[i][k]
            mn == memoNames[i][k]
        IN /\ \A n \in DOMAIN mi : [id |-> mi[n], name |-> n] \in Table(k)
           /\ \A id \in DOMAIN mn : [id |-> id, name |-> mn[id]] \in Table(k)
           /\ \A n \in DOMAIN mi : mi[n] \in DOMAIN mn /\ mn[mi[n]] = n
           /\ \A id \in DOMAIN mn : mn[id] \in DOMAIN mi /\ mi[mn[id]] = id

\* C23: a disconnect on an instance that never connected touches no pool, no
\* pool is ended more than once, and every disconnect completes without error.
C23_DisconnectIdempotent ==
    /\ \A i \in Insts : pool[i].state = "null" => pool[i].ends = 0
    /\ \A i \in Insts : pool[i].ends <= 1
    /\ \A p \in Procs : (proc[p].op = "disconnect" /\ proc[p].pc = "done") => proc[p].err = NONE

\* C24: when a connect has completed without error all four tables exist, none
\* was created more than once, and a table that was not created since the
\* initial state (one that existed before) had no other DDL statement run on it.
C24_ConnectCreatesMissingOnly ==
    \A p \in Procs :
        (proc[p].op = "connect" /\ proc[p].pc = "done" /\ proc[p].err = NONE) =>
            \A t \in TableNames :
                /\ tables[t].exists
                /\ tables[t].creates <= 1
                /\ tables[t].creates = 0 => tables[t].alters = 0

\* a round trip of caller p's operation has failed in this step
StoreFailure(p) == proc'[p] # proc[p] /\ proc'[p].err = "storeError"

C31_MemoMissQueriesStore ==
    [][\A p \in Procs :
         /\ \A k \in Kinds : \A n \in Names(k) :
               (getId(p, k, n) /\ n \notin DOMAIN memoIds[InstOf(p)][k]) => proc'[p].pc = "getId_select"
         /\ (/\ proc[p].op = "getId" /\ proc[p].pc = "getId_select" /\ proc'[p] # proc[p]
             /\ \E r \in Table(proc[p].kind) : r.name = proc[p].name) =>
               /\ proc'[p].pc = "done"
               /\ events' = events /\ queues' = queues
               /\ \A r \in Table(proc[p].kind) : r.name = proc[p].name => proc'[p].id = r.id]_vars

\* C32: no invocation of a public operation ends without its callback being
\* called: no operation stops in a state from which it never calls back.
C32_EveryCallCallsBack ==
    \A p \in Procs :
        proc[p].op \in {"subscribe", "unsubscribe", "subscriptions", "publish", "fetchNext", "find", "remove"} =>
            proc[p].pc # "crashed"

\* the stored items that are claimed
Claimed == {id \in DOMAIN items : IsClaimed(items[id])}

\* C33: drain. With N pending due items on a queue and sequential fetchNext
\* calls on it, a call made while an item is pending claims and returns one
\* pending item (so one no earlier call returned), a call made when none is
\* pending returns none and changes nothing; after k completed calls min(k, N)
\* items are claimed, and in the end every item is claimed for good.
C33_Drain ==
    /\ [][\A p \in Procs :
            UpdateStep(p) =>
               IF \E id \in DOMAIN items : IsPending(items[id])
               THEN \E id \in DOMAIN items :
                      /\ IsPending(items[id]) /\ IsClaimed(items'[id])
                      /\ {f.id : f \in proc'[p].res} = {id}
                      /\ Claimed' = Claimed \cup {id}
               ELSE proc'[p].res = {} /\ proc'[p].pc = "done" /\ items' = items]_vars
    /\ []((\A q \in Procs : proc[q].pc \in {"idle", "done"}) =>
            Cardinality(Claimed) = (IF ncalls < Cardinality(DOMAIN items) THEN ncalls ELSE Cardinality(DOMAIN items)))
    /\ <>[](Claimed = DOMAIN items)

\* C33's case: two items were pending, three sequential calls have completed,
\* both items are claimed and the last call returned none
C33_Witness ==
    /\ Cardinality(DOMAIN items) = 2 /\ Claimed = DOMAIN items /\ ncalls = 3
    /\ \A q \in Procs : proc[q].pc \in {"idle", "done"}
    /\ \E p \in Procs : proc[p].op = "fetchNext" /\ proc[p].pc = "done" /\ proc[p].res = {} /\ proc[p].err = NONE

\* C34: the query of a find without id selects exactly the pending stored items
\* that equal the criteria in every field they have; name and queue are first
\* replaced by the id of a row of that name, so that find({queue: q}) selects
\* the pending items of q and no item of another queue.
C34_FindReturnsExactlyMatchingPending ==
    [][\A p \in Procs :
         /\ (FindStep(p) /\ proc[p].crit.id = NULL) =>
               /\ {m.id : m \in proc'[p].res} =
                      {id \in DOMAIN items : IsPending(items[id]) /\ MatchesAll(proc[p].crit, id, items[id])}
               /\ proc[p].crit.name = NONE /\ proc[p].crit.queue = NONE
               /\ proc'[p].err = NONE
         /\ \A crit \in (IF ncalls' = ncalls + 1 /\ proc'[p].op = "find"
                          THEN {c \in Criteria : c.name # NONE \/ c.queue # NONE} ELSE {}) :
               find(p, crit) =>
                  /\ proc'[p].crit.event_id # NULL => [id |-> proc'[p].crit.event_id, name |-> crit.name] \in events
                  /\ proc'[p].crit.queue_id # NULL => [id |-> proc'[p].crit.queue_id, name |-> crit.queue] \in queues
                  /\ proc'[p].pc = "find_query" =>
                        (crit.name # NONE <=> proc'[p].crit.event_id # NULL) /\ (crit.queue # NONE <=> proc'[p].crit.queue_id # NULL)
         /\ (proc[p].op = "find" /\ proc[p].pc \in {"getId_select", "getId_insert"}) =>
               /\ (proc[p].crit.event_id = NULL /\ proc'[p].crit.event_id # NULL) =>
                     [id |-> proc'[p].crit.event_id, name |-> proc[p].crit.name] \in events'
               /\ (proc[p].crit.queue_id = NULL /\ proc'[p].crit.queue_id # NULL) =>
                     [id |-> proc'[p].crit.queue_id, name |-> proc[p].crit.queue] \in queues'
               /\ (proc[p].crit.event_id # NULL /\ proc'[p].op = "find" /\ proc'[p].pc # "done") =>
                     proc'[p].crit.event_id = proc[p].crit.event_id
               /\ proc'[p].pc = "find_query" =>
                     /\ proc[p].crit.name # NONE => proc'[p].crit.event_id # NULL
                     /\ proc[p].crit.queue # NONE => proc'[p].crit.queue_id # NULL]_vars

\* C34's case: a find has returned pending items of one queue and left out a
\* pending item of the same event that is on another queue
C34_Witness ==
    \E p \in Procs :
        /\ proc[p].op = "find" /\ proc[p].pc = "done" /\ proc[p].err = NONE
        /\ proc[p].res # {}
        /\ \A m \in proc[p].res : m.id \in DOMAIN items /\ IsPending(items[m.id])
        /\ \E id \in DOMAIN items \ {m.id : m \in proc[p].res} :
              /\ IsPending(items[id])
              /\ \A m \in proc[p].res :
                    /\ items[m.id].event_id = items[id].event_id
                    /\ items[m.id].queue_id # NULL /\ items[id].queue_id # NULL
                    /\ items[m.id].queue_id # items[id].queue_id

\* C35: find and remove leave the caller's criteria object as it was given: a
\* call that starts holds the criteria it was handed, and no step of a find or
\* a remove that is under way changes a key or a value of them.
C35_CriteriaUnchanged ==
    [][\A p \in Procs :
         /\ \A crit \in Criteria :
               (find(p, crit) \/ remove(p, crit)) => proc'[p].crit = crit
         /\ (proc[p].op \in {"find", "remove"}
               /\ proc[p].pc \in {"getId_select", "getId_insert"}
               /\ proc'[p].pc \in {"getId_select", "getId_insert", "find_query", "remove_query"}) =>
               proc'[p].crit = proc[p].crit]_vars

C37_IdsUniqueAndIncreasing ==
    /\ [](\A id \in DOMAIN items : id \in 1..itemSeq)
    /\ [][/\ itemSeq' >= itemSeq
          /\ \A id \in DOMAIN items' \ DOMAIN items :
                /\ id > itemSeq /\ id <= itemSeq'
                /\ \A old \in DOMAIN items : old < id
                /\ \A q \in Procs : \A j \in 1..Len(proc[q].ids) : proc[q].ids[j] < id
                /\ \A q \in Procs : \A m \in proc[q].res : m.id < id
          /\ \A id \in DOMAIN items \cap DOMAIN items' :
                /\ items'[id].event_id = items[id].event_id /\ items'[id].queue_id = items[id].queue_id
                /\ items'[id].created = items[id].created
          /\ \A p \in Procs :
                (PublishStep(p) /\ proc'[p].err = NONE) =>
                   LET ids == proc'[p].ids
                       list == proc'[p].input.list
                   IN /\ Len(ids) = Len(list)
                      /\ {ids[j] : j \in 1..Len(ids)} = DOMAIN items' \ DOMAIN items
                      /\ \A j, k \in 1..Len(ids) : j < k => ids[j] < ids[k]
                      /\ \A j \in 1..Len(ids) : items'[ids[j]] = InsertedRow(convertEventToQuery(list[j]))]_vars

\* C37's case: after the first item was removed the producer published a batch
\* of two different drafts, which got the ids 2 and 3 in the order of the drafts
C37_Witness ==
    \E p \in Procs :
        /\ proc[p].op = "publish" /\ proc[p].pc = "done" /\ proc[p].err = NONE
        /\ proc[p].ids = <<2, 3>> /\ DOMAIN items = {2, 3} /\ itemSeq = 3
        /\ proc[p].input.list[1] # proc[p].input.list[2]
        /\ items[2].created = proc[p].input.list[1].created /\ items[2].when = proc[p].input.list[1].when
        /\ items[3].created = proc[p].input.list[2].created /\ items[3].when = proc[p].input.list[2].when
        /\ items[2] # items[3]

\* the predicates "key" = $n of the entries from the k-th on, joined by " AND "
RECURSIVE JoinedPredicates(_, _, _)
JoinedPredicates(entries, counter, k) ==
    IF k > Len(entries) THEN ""
    ELSE "\"" \o entries[k].key \o "\" = $" \o ToString(counter + k - 1)
            \o (IF k < Len(entries) THEN " AND " ELSE "")
            \o JoinedPredicates(entries, counter, k + 1)

\* C38: the object createWhereSQL(criteria, counter) returns has a text that is
\* the empty string for empty criteria and otherwise "WHERE " followed by one
\* predicate "key" = $n per key joined by " AND ", values that hold the value of
\* the i-th key where the i-th placeholder looks for it, and a counter that is
\* the start counter plus the number of keys; the text find builds from it for
\* criteria without id is that text with "when" > $n appended, n being one past
\* the last placeholder of the criteria.
C38_WhereSQLShape ==
    \A p \in Procs :
        LET entries == Entries(proc[p].crit)
            n == Len(entries)
            c == proc[p].counter
            w == proc[p].whereSQL
            text == IF n = 0 THEN "" ELSE "WHERE " \o JoinedPredicates(entries, c, 1)
        IN /\ proc[p].pc = "built" =>
                 /\ "text" \in DOMAIN w /\ w.text = text
                 /\ \A i \in 1..n : w.values[c + i - 2] = entries[i].value
                 /\ w.counter = c + n
           /\ (proc[p].pc = "done" /\ proc[p].op = "find" /\ proc[p].whereSQL # NULL /\ proc[p].crit.id = NULL) =>
                 /\ w.text = text \o (IF n = 0 THEN " WHERE " ELSE " AND ") \o "\"when\" > $" \o ToString(n + 1) \o " "
                 /\ DOMAIN w.values = 0..n /\ w.values[n] = newDate

============================================================================
